---- MODULE Spec2Model ----
(***************************************************************************)
(* Task orchestration engine of the multi-agent system: AgentSystem        *)
(* (src/src/agentSystem.js) with the ToolRegistry it registers tools in    *)
(* (src/unnamed/part_000).                                                 *)
(*                                                                         *)
(* JavaScript runs one callback to completion before the next one starts.  *)
(* An action of this model is one such run: the synchronous code of a      *)
(* handler together with the promise continuations it schedules, up to the *)
(* point where the only thing left to wait for is a Role Agent call.       *)
(* The synchronous code is written as operators that take the orchestrator *)
(* state as a record and return the record after the call.                 *)
(*                                                                         *)
(* Four specifications: Spec is the orchestrator under its subscribers     *)
(* and task submissions, SpecStatus adds the status queries, SpecRegistry  *)
(* is the registry under the calls of its operations and of startTask,     *)
(* SpecClient is an MCPClient under the calls of its owner and the events  *)
(* of the processes it spawns and of the requests it makes.                *)
(*                                                                         *)
(* Not modelled: the timestamp fields of history records and of events     *)
(* (Date.now() values that no operation reads back); the arguments and the *)
(* name of a tool call, which no step of MCPClient branches on; a spawn    *)
(* that throws synchronously.                                              *)
(***************************************************************************)
EXTENDS Integers, Sequences, FiniteSets, TLC

\* Bounds of the model.
MaxClock == 2        \* readings of Date.now() are 1..MaxClock

MaxProcs == 2        \* processes spawned
MaxExecs == 1        \* executeTool calls made
MaxStops == 1        \* stop() calls made
MaxBuffer == 4       \* words a process writes to its standard output

NoProcess == 0       \* mcpProcess: null

\* Inputs.
ClientIds == {"c1", "c2"}
\* the callback a subscriber registers: one that raises, one that returns
Callbacks == {[id |-> "c1", fn |-> "raise"], [id |-> "c2", fn |-> "ok"]}
Prompts == <<"do X", "do Y">>         \* the prompts submitted to startTask, in order
Outputs == {"text"}                   \* texts the model produces in a Role Agent call
ModelFailures == {"model error"}      \* messages of errors inside Agent.process

Null == [null |-> TRUE]               \* JavaScript null
NoStatus == "none"                    \* status of an object not yet created
NoTime == 0                           \* endTime: null
NoError == "none"                     \* nothing thrown
SendError == "send failed"            \* message of the error a raising callback throws

Roles == <<"thinker", "planner", "executor", "reviewer">>
PhaseLabels == <<"thinking", "planning", "executing", "reviewing">>

Min(S) == CHOOSE x \in S : \A y \in S : x <= y
IsPrefix(a, b) == Len(a) <= Len(b) /\ SubSeq(b, 1, Len(a)) = a
Range(f) == {f[x] : x \in DOMAIN f}

VARIABLES
  clock,          \* Date.now()
  tools,          \* ToolRegistry.tools: name -> definition
  agentTools,     \* ToolRegistry.agentTools: role -> set of tool names
  tasks,          \* AgentSystem.tasks: task id -> task object (index into objs)
  objs,           \* the task objects, in creation order
  wf,             \* the phase sequence launched for each task object
  clients,        \* AgentSystem.clients, in insertion order: <<[id, fn]>>
  sent,           \* history variable: the events broadcast for each phase sequence
  assigned,       \* history variable: the assignments <<old, new>> made to a task
                  \* object's status (<<NoStatus, s>> when it is created with s)
  endTimeWrites,  \* history variable: number of assignments to a task object's endTime
  delivery,       \* history variable: the last broadcastUpdate call of the latest step
  ret             \* the call of a query or registry operation the latest step made:
                  \* its name, its argument, what it returned or threw, and (history)
                  \* the definition the registry held under the argument's name before
VARIABLES
  isRunning,      \* MCPClient.isRunning
  mcpProcess,     \* MCPClient.mcpProcess: index into procs, or NoProcess (null)
  procs,          \* the processes start() has spawned, each with the promise, the
                  \* output buffer and the timer of the start() call that spawned it
  execs,          \* the executeTool calls made
  stops           \* the stop() calls made
VARIABLES
  agent           \* the Agent.process call in progress: where it is, the function calls
                  \* the model asked for, the names it has passed to executeTool, the
                  \* results of those calls, and what process returned or threw

regVars == <<tools, agentTools>>
orchVars == <<tasks, objs, wf, sent, assigned, endTimeWrites>>
mcpVars == <<isRunning, mcpProcess, procs, execs, stops>>
vars == <<clock, tools, agentTools, tasks, objs, wf, clients, sent, assigned,
          endTimeWrites, delivery, ret, isRunning, mcpProcess, procs, execs, stops,
          agent>>

-----------------------------------------------------------------------------
(* ToolRegistry *)

ObjectSchema == [type |-> "object"]

Tool(name, agents) ==
  [name |-> name, description |-> "d", parameters |-> ObjectSchema, allowedAgents |-> agents]

AllRoles == <<"executor", "thinker", "planner", "reviewer">>

BaseToolNames ==
  <<"browser_navigate", "browser_navigate_back", "browser_navigate_forward",
    "browser_snapshot", "browser_take_screenshot", "browser_click", "browser_hover",
    "browser_type", "browser_select_option", "browser_press_key",
    "browser_console_messages", "browser_file_upload", "browser_pdf_save",
    "browser_wait", "browser_close", "browser_install", "browser_tab_list",
    "browser_tab_new", "browser_tab_select", "browser_tab_close">>

PlaywrightAllowedAgents(name) ==
  IF name \in {"browser_navigate", "browser_snapshot", "browser_take_screenshot",
               "browser_screen_capture"}
  THEN AllRoles
  ELSE IF name \in {"browser_navigate_back", "browser_navigate_forward",
                    "browser_tab_list", "browser_tab_new", "browser_tab_select",
                    "browser_tab_close"}
  THEN <<"executor", "planner">>
  ELSE <<"executor">>

CustomTools ==
  << Tool("web_search", <<"executor", "thinker">>),
     Tool("read_file", <<"executor">>),
     Tool("write_file", <<"executor">>),
     Tool("run_command", <<"executor">>) >>

VisionToolNames ==
  <<"browser_screen_capture", "browser_screen_click", "browser_screen_move_mouse",
    "browser_screen_drag", "browser_screen_type">>

\* options.vision: process.env.MCP_VISION === 'true'; unset in the default environment
Vision == FALSE

PlaywrightToolNames == BaseToolNames \o (IF Vision THEN VisionToolNames ELSE <<>>)

\* the tools the constructor registers: the Playwright tools, then the custom tools
DefaultTools ==
  [i \in 1..Len(PlaywrightToolNames) |->
      Tool(PlaywrightToolNames[i], PlaywrightAllowedAgents(PlaywrightToolNames[i]))]
  \o CustomTools

\* !tool.<field>: a field that is undefined, null or "" is left out of the record
Missing(tool, field) == field \notin DOMAIN tool

AllowedAgents(tool) ==
  IF "allowedAgents" \in DOMAIN tool THEN tool.allowedAgents ELSE <<"executor">>

\* a bug: a name that is already registered keeps its first definition
RegisterToolKeepFirst(r, tool) ==
  IF Missing(tool, "name") \/ Missing(tool, "description") \/ Missing(tool, "parameters")
  THEN [r EXCEPT !.thrown = "Tool must have name, description, and parameters"]
  ELSE [r EXCEPT
          !.tools = [n \in DOMAIN r.tools \cup {tool.name} |->
                        IF n \in DOMAIN r.tools THEN r.tools[n] ELSE tool],
          !.agentTools = [a \in DOMAIN r.agentTools \cup Range(AllowedAgents(tool)) |->
                            (IF a \in DOMAIN r.agentTools THEN r.agentTools[a] ELSE {})
                            \cup (IF a \in Range(AllowedAgents(tool))
                                  THEN {tool.name} ELSE {})]]

\* a bug: the definition is stored before it is validated
RegisterToolUnchecked(r, tool) ==
  LET stored == IF Missing(tool, "name") THEN r.tools
                ELSE [n \in DOMAIN r.tools \cup {tool.name} |->
                         IF n = tool.name THEN tool ELSE r.tools[n]]
  IN IF Missing(tool, "name") \/ Missing(tool, "description") \/ Missing(tool, "parameters")
     THEN [r EXCEPT !.tools = stored,
                    !.thrown = "Tool must have name, description, and parameters"]
     ELSE [r EXCEPT !.tools = stored,
                    !.agentTools = [a \in DOMAIN r.agentTools \cup Range(AllowedAgents(tool)) |->
                                      (IF a \in DOMAIN r.agentTools THEN r.agentTools[a] ELSE {})
                                      \cup (IF a \in Range(AllowedAgents(tool))
                                            THEN {tool.name} ELSE {})]]

\* registerTool on the registry r = [tools, agentTools, thrown]
RegisterTool(r, tool) ==
  IF Missing(tool, "name") \/ Missing(tool, "description") \/ Missing(tool, "parameters")
  THEN [r EXCEPT !.thrown = "Tool must have name, description, and parameters"]
  ELSE LET granted == Range(AllowedAgents(tool))
           roles == DOMAIN r.agentTools \cup granted
       IN [r EXCEPT
             !.tools = [n \in DOMAIN r.tools \cup {tool.name} |->
                           IF n = tool.name THEN tool ELSE r.tools[n]],
             !.agentTools = [a \in roles |->
                           LET old == IF a \in DOMAIN r.agentTools
                                      THEN r.agentTools[a] ELSE {}
                           IN IF a \in granted THEN old \cup {tool.name} ELSE old]]

\* a loop of registerTool calls that stops at the first one that throws
RECURSIVE RegisterAll(_, _)
RegisterAll(r, list) ==
  IF list = <<>> \/ r.thrown # NoError THEN r
  ELSE RegisterAll(RegisterTool(r, Head(list)), Tail(list))

EmptyRegistry == [tools |-> <<>>, agentTools |-> <<>>, thrown |-> NoError]

\* a bug: the definition is removed and the roles' sets are left as they are
UnregisterToolKeepGrants(r, toolName) ==
  IF toolName \notin DOMAIN r.tools
  THEN [tools |-> r.tools, agentTools |-> r.agentTools, thrown |-> NoError, value |-> FALSE]
  ELSE [tools |-> [n \in DOMAIN r.tools \ {toolName} |-> r.tools[n]],
        agentTools |-> r.agentTools, thrown |-> NoError, value |-> TRUE]

\* a bug: the name is removed from the executor's set only
UnregisterToolExecutorOnly(r, toolName) ==
  IF toolName \notin DOMAIN r.tools
  THEN [tools |-> r.tools, agentTools |-> r.agentTools, thrown |-> NoError, value |-> FALSE]
  ELSE [tools |-> [n \in DOMAIN r.tools \ {toolName} |-> r.tools[n]],
        agentTools |-> [a \in DOMAIN r.agentTools |->
                          IF a = "executor" THEN r.agentTools[a] \ {toolName}
                          ELSE r.agentTools[a]],
        thrown |-> NoError, value |-> TRUE]

\* unregisterTool on the registry r; .value is what it returns
UnregisterTool(r, toolName) ==
  IF toolName \notin DOMAIN r.tools
  THEN [tools |-> r.tools, agentTools |-> r.agentTools, thrown |-> NoError, value |-> FALSE]
  ELSE [tools |-> [n \in DOMAIN r.tools \ {toolName} |-> r.tools[n]],
        agentTools |-> [a \in DOMAIN r.agentTools |-> r.agentTools[a] \ {toolName}],
        thrown |-> NoError, value |-> TRUE]

\* a bug: the tools are read from a copy of the registry made at construction
GetToolsForAgentSnapshot(r, agentRole) ==
  LET c == RegisterAll(EmptyRegistry, DefaultTools)
  IN IF agentRole \notin DOMAIN c.agentTools THEN {}
     ELSE {c.tools[n] : n \in {m \in c.agentTools[agentRole] : m \in DOMAIN c.tools}}

\* getToolsForAgent on the registry r: the definitions stored under the names of the
\* role's set (as a set: the order of the array is the insertion order of the names)
GetToolsForAgent(r, agentRole) ==
  IF agentRole \notin DOMAIN r.agentTools THEN {}
  ELSE {r.tools[n] : n \in {m \in r.agentTools[agentRole] : m \in DOMAIN r.tools}}

HasTool(r, toolName) == toolName \in DOMAIN r.tools

\* getTool: the stored definition, or null
GetTool(r, toolName) == IF toolName \in DOMAIN r.tools THEN r.tools[toolName] ELSE Null

\* tools a caller hands to startTask
Ping == [name |-> "ping", description |-> "x", parameters |-> ObjectSchema]
NoDescription == [name |-> "broken", parameters |-> ObjectSchema]
ToolLists == {<<>>, <<Ping, NoDescription>>}

\* arguments of the calls made on the registry
PingForThinker == Tool("ping", <<"thinker">>)
NoName == [description |-> "x", parameters |-> ObjectSchema]
NoParameters == [name |-> "broken", description |-> "x"]
\* a definition with an array property that declares no items
ListTool ==
  [name |-> "list", description |-> "x",
   parameters |-> [type |-> "object", properties |-> [xs |-> [type |-> "array"]]]]
ToolInputs == {Ping, PingForThinker, ListTool, NoName, NoDescription, NoParameters}
ToolNames == {"ping", "web_search", "list", "no_such_tool"}
QueryRoles == {"executor", "thinker", "planner", "reviewer", "auditor"}

-----------------------------------------------------------------------------
(* AgentSystem *)

Terminal(status) == status \in {"completed", "failed"}

ErrorResult(message) == [error |-> message]

\* a bug: the review field is given the executor's output
AggregateWrongReview(outs) ==
  [thinking |-> outs[1], planning |-> outs[2], execution |-> outs[3],
   review |-> outs[3], finalResult |-> outs[4]]

Aggregate(outs) ==
  [thinking |-> outs[1], planning |-> outs[2], execution |-> outs[3],
   review |-> outs[4], finalResult |-> outs[4]]

\* the message of the error Agent.process throws
AgentFailure(role, message) == role \o " agent failed: " \o message

\* the text Agent.process returns
AgentText(role, text) == <<role, text>>

NoDelivery == [registered |-> <<>>, invoked |-> <<>>, made |-> FALSE]

\* no Agent.process call has been made
NoProcessCall ==
  [pc |-> "idle", role |-> "none", text |-> "", calls |-> <<>>, executed |-> <<>>,
   results |-> <<>>, value |-> Null, thrown |-> NoError]

NoCall == [op |-> "none", arg |-> Null, value |-> Null, thrown |-> NoError, prior |-> Null]

\* ids a status query asks for: the readings of Date.now()
TaskIds == 1..MaxClock

TaskNotFound(taskId) == "Task " \o ToString(taskId) \o " not found"

\* getTaskStatus: what it returns (.value) or throws
GetTaskStatus(taskId) ==
  IF taskId \notin DOMAIN tasks
  THEN [value |-> Null, thrown |-> TaskNotFound(taskId)]
  ELSE LET task == objs[tasks[taskId]]
       IN [value |-> [id |-> task.id, status |-> task.status, result |-> task.result,
                      history |-> task.history, startTime |-> task.startTime,
                      endTime |-> task.endTime],
           thrown |-> NoError]

\* the orchestrator state a synchronous run works on
Cur ==
  [tasks |-> tasks, objs |-> objs, wf |-> wf, sent |-> sent,
   assigned |-> assigned, endTimeWrites |-> endTimeWrites,
   delivery |-> NoDelivery, thrown |-> NoError]

Ids(cl) == [i \in DOMAIN cl |-> cl[i].id]

\* the callbacks the loop of broadcastUpdate invokes: all of them, or those up to
\* the first one that raises
Invoked(cl) ==
  LET raising == {i \in DOMAIN cl : cl[i].fn = "raise"}
  IN IF raising = {} THEN cl ELSE SubSeq(cl, 1, Min(raising))

BroadcastUpdate(s, w, update) ==
  [s EXCEPT !.sent[w] = Append(@, update),
            !.delivery = [registered |-> Ids(clients),
                          invoked |-> Ids(Invoked(clients)), made |-> TRUE],
            !.thrown = IF \E i \in DOMAIN clients : clients[i].fn = "raise"
                       THEN SendError ELSE NoError]

UpdateTaskStatus(s, w, taskId, status, result) ==
  LET o == s.tasks[taskId]
      s1 == [s EXCEPT !.objs[o].status = status,
                      !.objs[o].result = IF result # Null THEN result ELSE @,
                      !.objs[o].endTime = IF Terminal(status) THEN clock ELSE @,
                      !.assigned[o] = @ \cup {<<s.objs[o].status, status>>},
                      !.endTimeWrites[o] = IF Terminal(status) THEN @ + 1 ELSE @]
  IN BroadcastUpdate(s1, w, [type |-> "task_update", taskId |-> taskId,
                             status |-> status, result |-> result])

\* catch block of _executeAgentWorkflow; the workflow's promise rejects with .thrown
WorkflowCatch(s, w, taskId, error) ==
  LET s1 == UpdateTaskStatus(s, w, taskId, "failed", ErrorResult(error))
  IN [s1 EXCEPT !.thrown = IF s1.thrown # NoError THEN s1.thrown ELSE error]

\* .catch handler startTask puts on the workflow's promise. When the broadcast of
\* this update throws, the rejection is handled by nobody; a runtime that ends
\* the process on an unhandled rejection stops here, which is the behaviour that
\* takes no further step.
StartTaskCatch(s, w, taskId) ==
  LET s1 == UpdateTaskStatus(s, w, taskId, "failed", ErrorResult(s.thrown))
  IN [s1 EXCEPT !.wf[w].pc = "done"]

Rejected(s, w, taskId, error) == StartTaskCatch(WorkflowCatch(s, w, taskId, error), w, taskId)

\* a bug: the call of the next role is made without awaiting this one
StartAgentNoAwait(s, w, k) ==
  [s EXCEPT !.wf[w].pc = "agent", !.wf[w].phase = k,
            !.wf[w].calls = @ \o SubSeq(Roles, k, k + 1)]

StartAgent(s, w, k) ==
  [s EXCEPT !.wf[w].pc = "agent", !.wf[w].phase = k, !.wf[w].calls = Append(@, Roles[k])]

\* await this._updateTaskStatus(taskId, <label k>); then this.agents.<role k>.process(...)
EnterPhase(s, w, taskId, k) ==
  LET s1 == UpdateTaskStatus(s, w, taskId, PhaseLabels[k], Null)
  IN IF s1.thrown = NoError THEN StartAgent(s1, w, k)
     ELSE Rejected(s1, w, taskId, s1.thrown)

Complete(s, w, taskId) ==
  LET s1 == UpdateTaskStatus(s, w, taskId, "completed", Aggregate(s.wf[w].outs))
  IN IF s1.thrown = NoError THEN [s1 EXCEPT !.wf[w].pc = "done"]
     ELSE Rejected(s1, w, taskId, s1.thrown)

\* a bug: unshift instead of push
HistoryUnshift(history, k, out) == <<[phase |-> PhaseLabels[k], output |-> out]>> \o history

HistoryPush(history, k, out) == Append(history, [phase |-> PhaseLabels[k], output |-> out])

Put(map, key, value) ==
  [x \in DOMAIN map \cup {key} |-> IF x = key THEN value ELSE map[x]]

Commit(s) ==
  /\ tasks' = s.tasks
  /\ objs' = s.objs
  /\ wf' = s.wf
  /\ sent' = s.sent
  /\ assigned' = s.assigned
  /\ endTimeWrites' = s.endTimeWrites
  /\ delivery' = s.delivery

-----------------------------------------------------------------------------
Init ==
  /\ clock = 1
  /\ LET r == RegisterAll(EmptyRegistry, DefaultTools)
     IN tools = r.tools /\ agentTools = r.agentTools
  /\ tasks = <<>>
  /\ objs = <<>>
  /\ wf = <<>>
  /\ clients = <<>>
  /\ sent = <<>>
  /\ assigned = <<>>
  /\ endTimeWrites = <<>>
  /\ delivery = NoDelivery
  /\ ret = NoCall
  /\ isRunning = FALSE
  /\ mcpProcess = NoProcess
  /\ procs = <<>>
  /\ execs = <<>>
  /\ stops = <<>>
  /\ agent = NoProcessCall

Tick ==
  /\ clock < MaxClock
  /\ clock' = clock + 1
  /\ delivery' = NoDelivery
  /\ ret' = NoCall
  /\ UNCHANGED <<regVars, orchVars, clients, mcpVars, agent>>

RegisterClient(id, fn) ==
  /\ clients' = IF \E i \in DOMAIN clients : clients[i].id = id
                THEN [i \in DOMAIN clients |->
                        IF clients[i].id = id THEN [id |-> id, fn |-> fn] ELSE clients[i]]
                ELSE Append(clients, [id |-> id, fn |-> fn])
  /\ delivery' = NoDelivery
  /\ ret' = NoCall
  /\ UNCHANGED <<clock, regVars, orchVars, mcpVars, agent>>

UnregisterClient(id) ==
  /\ clients' = SelectSeq(clients, LAMBDA c : c.id # id)
  /\ delivery' = NoDelivery
  /\ ret' = NoCall
  /\ UNCHANGED <<clock, regVars, orchVars, mcpVars, agent>>

StartTask(prompt, availableTools) ==
  /\ Len(objs) < Len(Prompts)
  /\ prompt = Prompts[Len(objs) + 1]
  /\ LET taskId == clock
         r == RegisterAll([tools |-> tools, agentTools |-> agentTools, thrown |-> NoError],
                          availableTools)
     IN /\ tools' = r.tools
        /\ agentTools' = r.agentTools
        /\ IF r.thrown # NoError
           THEN delivery' = NoDelivery /\ UNCHANGED orchVars
           ELSE LET w == Len(objs) + 1
                    task == [id |-> taskId, prompt |-> prompt, status |-> "thinking",
                             history |-> <<>>, result |-> Null,
                             startTime |-> clock, endTime |-> NoTime]
                    s0 == [Cur EXCEPT
                             !.objs = Append(@, task),
                             !.tasks = Put(@, taskId, w),
                             !.wf = Append(@, [taskId |-> taskId, pc |-> "unlaunched",
                                               phase |-> 0, outs |-> <<>>, calls |-> <<>>,
                                               raised |-> NoError]),
                             !.sent = Append(@, <<>>),
                             !.assigned = Append(@, {<<NoStatus, "thinking">>}),
                             !.endTimeWrites = Append(@, 0)]
                    s1 == BroadcastUpdate(s0, w, [type |-> "task_started",
                                                  taskId |-> taskId, status |-> "thinking"])
                IN Commit(IF s1.thrown # NoError THEN s1
                          ELSE EnterPhase(s1, w, taskId, 1))
  /\ ret' = NoCall
  /\ UNCHANGED <<clock, clients, mcpVars, agent>>

\* the phase sequence w from the return of its Role Agent call to its next await
Resume(w, out) ==
  LET k == wf[w].phase
      result == AgentText(Roles[k], out)
      s1 == [Cur EXCEPT !.objs[w].history = HistoryPush(@, k, result),
                        !.wf[w].outs = Append(@, result)]
  IN IF k < 4 THEN EnterPhase(s1, w, wf[w].taskId, k + 1)
     ELSE Complete(s1, w, wf[w].taskId)

AgentReturn(w, out) ==
  /\ wf[w].pc = "agent"
  /\ Commit(Resume(w, out))
  /\ ret' = NoCall
  /\ UNCHANGED <<clock, regVars, clients, mcpVars, agent>>

AgentRaise(w, message) ==
  /\ wf[w].pc = "agent"
  /\ LET error == AgentFailure(Roles[wf[w].phase], message)
         s1 == [Cur EXCEPT !.wf[w].raised = error]
     IN Commit(Rejected(s1, w, wf[w].taskId, error))
  /\ ret' = NoCall
  /\ UNCHANGED <<clock, regVars, clients, mcpVars, agent>>

Next ==
  \/ Tick
  \/ \E c \in Callbacks : RegisterClient(c.id, c.fn)
  \/ \E id \in ClientIds : UnregisterClient(id)
  \/ \E p \in Range(Prompts), l \in ToolLists : StartTask(p, l)
  \/ \E w \in DOMAIN wf, out \in Outputs : AgentReturn(w, out)
  \/ \E w \in DOMAIN wf, m \in ModelFailures : AgentRaise(w, m)

Spec == Init /\ [][Next]_vars

\* GET /api/task/:taskId: the handler calls getTaskStatus and sends what it returns,
\* or an error response when it throws
StatusQuery(taskId) ==
  /\ LET r == GetTaskStatus(taskId)
     IN ret' = [op |-> "getTaskStatus", arg |-> taskId, value |-> r.value,
                thrown |-> r.thrown, prior |-> Null]
  /\ delivery' = NoDelivery
  /\ UNCHANGED <<clock, regVars, orchVars, clients, mcpVars, agent>>

NextStatus ==
  \/ Next
  \/ \E id \in TaskIds : StatusQuery(id)

\* the orchestrator with the status queries of its clients
SpecStatus == Init /\ [][NextStatus]_vars

Registry == [tools |-> tools, agentTools |-> agentTools, thrown |-> NoError]

Drop(rec, field) == [x \in DOMAIN rec \ {field} |-> rec[x]]

RECURSIVE FixParametersObject(_)
RECURSIVE FixProperty(_)

\* what the body of the forEach of _fixParametersObject makes of one property
FixProperty(prop) ==
  LET a == Drop(prop, "default")
      b == IF "type" \in DOMAIN a /\ a.type = "array" /\ "items" \notin DOMAIN a
           THEN Put(a, "items", [type |-> "string"]) ELSE a
      c == IF "properties" \in DOMAIN b THEN FixParametersObject(b) ELSE b
  IN IF "items" \notin DOMAIN c THEN c
     ELSE LET i == Drop(c.items, "default")
          IN Put(c, "items", IF "properties" \in DOMAIN i THEN FixParametersObject(i) ELSE i)

\* Agent._fixParametersObject: the parameters object after the call (it is changed in
\* place, and it is the object the registry stores)
FixParametersObject(parameters) ==
  LET p == IF "type" \notin DOMAIN parameters THEN Put(parameters, "type", "object")
           ELSE parameters
  IN IF "properties" \notin DOMAIN p THEN p
     ELSE Put(p, "properties", [k \in DOMAIN p.properties |-> FixProperty(p.properties[k])])

\* Agent._fixToolDefinitions on one tool
FixToolDefinition(tool) ==
  IF Missing(tool, "parameters") THEN tool
  ELSE Put(tool, "parameters", FixParametersObject(tool.parameters))

CallRegisterTool(tool) ==
  /\ LET r == RegisterTool(Registry, tool)
     IN /\ tools' = r.tools
        /\ agentTools' = r.agentTools
        /\ ret' = [op |-> "registerTool", arg |-> tool,
                   value |-> IF r.thrown = NoError THEN TRUE ELSE Null,
                   thrown |-> r.thrown,
                   prior |-> IF Missing(tool, "name") THEN Null
                             ELSE GetTool(Registry, tool.name)]
  /\ delivery' = NoDelivery
  /\ UNCHANGED <<clock, orchVars, clients, mcpVars, agent>>

CallUnregisterTool(toolName) ==
  /\ LET r == UnregisterTool(Registry, toolName)
     IN /\ tools' = r.tools
        /\ agentTools' = r.agentTools
        /\ ret' = [op |-> "unregisterTool", arg |-> toolName, value |-> r.value,
                   thrown |-> NoError, prior |-> GetTool(Registry, toolName)]
  /\ delivery' = NoDelivery
  /\ UNCHANGED <<clock, orchVars, clients, mcpVars, agent>>

\* Agent.process asks the registry for the tools of its role
\* and fixes, in place, the definitions it got; .value is the array it then holds
CallGetToolsForAgent(agentRole) ==
  /\ LET got == GetToolsForAgent(Registry, agentRole)
     IN /\ tools' = [n \in DOMAIN tools |->
                       IF tools[n] \in got THEN FixToolDefinition(tools[n]) ELSE tools[n]]
        /\ ret' = [op |-> "getToolsForAgent", arg |-> agentRole,
                   value |-> {FixToolDefinition(t) : t \in got},
                   thrown |-> NoError, prior |-> Null]
  /\ delivery' = NoDelivery
  /\ UNCHANGED <<clock, agentTools, orchVars, clients, mcpVars, agent>>

CallGetTool(toolName) ==
  /\ ret' = [op |-> "getTool", arg |-> toolName, value |-> GetTool(Registry, toolName),
             thrown |-> NoError, prior |-> Null]
  /\ delivery' = NoDelivery
  /\ UNCHANGED <<clock, regVars, orchVars, clients, mcpVars, agent>>

CallHasTool(toolName) ==
  /\ ret' = [op |-> "hasTool", arg |-> toolName, value |-> HasTool(Registry, toolName),
             thrown |-> NoError, prior |-> Null]
  /\ delivery' = NoDelivery
  /\ UNCHANGED <<clock, regVars, orchVars, clients, mcpVars, agent>>

NextRegistry ==
  \/ \E tool \in ToolInputs : CallRegisterTool(tool)
  \/ \E n \in ToolNames : CallUnregisterTool(n)
  \/ \E a \in QueryRoles : CallGetToolsForAgent(a)
  \/ \E n \in ToolNames : CallHasTool(n)
  \/ \E n \in ToolNames : CallGetTool(n)
  \/ \E p \in Range(Prompts), l \in ToolLists : StartTask(p, l)

\* the registry under the calls of its operations, and of startTask, which registers
\* the tools its caller supplies
SpecRegistry == Init /\ [][NextRegistry]_vars

-----------------------------------------------------------------------------
(* MCPClient *)

\* the phrases start() looks for in a chunk of standard output, as sequences of words
ReadinessMarkers ==
  { <<"Server", "listening", "on", "port">>, <<"ready">>,
    <<"Listening", "on", "http://localhost">>,
    <<"Put", "this", "in", "your", "client", "config">> }

\* chunks the 'data' events of a process's standard output deliver: a line that holds
\* a marker, and the same line delivered in two chunks
StdoutChunks ==
  { <<"Server", "listening", "on", "port">>, <<"Server", "listening">>, <<"on", "port">> }
StderrTexts == {"npm ERR!"}
ExitCodes == {"0", "1", "null"}       \* code of the 'close' event; null after a signal

\* String.prototype.includes, on sequences of words
Includes(output, phrase) ==
  \E i \in 1..(Len(output) - Len(phrase) + 1) :
    SubSeq(output, i, i + Len(phrase) - 1) = phrase

IsReady(output) == \E marker \in ReadinessMarkers : Includes(output, marker)

StartupError(text) == "Failed to start Playwright MCP server: " \o text
ExitError(code) == "Playwright MCP server exited with code " \o code
StartupTimeout == "Playwright MCP server failed to start within 60000ms"
ToolError(message) == "Tool execution failed: " \o message

\* the client state a synchronous run works on
Mcp == [isRunning |-> isRunning, mcpProcess |-> mcpProcess, procs |-> procs,
        execs |-> execs, stops |-> stops]

CommitMcp(m) ==
  /\ isRunning' = m.isRunning
  /\ mcpProcess' = m.mcpProcess
  /\ procs' = m.procs
  /\ execs' = m.execs
  /\ stops' = m.stops

\* a spawned process, with the state of the start() call that spawned it: its promise
\* (.start, .error), its outputBuffer and its startup timer; .signal is the last signal
\* sent to the process; .stderr records that the process wrote to its error stream
\* before it had written a readiness marker
NewProcess ==
  [alive |-> TRUE, start |-> "pending", error |-> NoError, outputBuffer |-> <<>>,
   timer |-> "armed", signal |-> "none", stderr |-> FALSE]

\* start() up to the return of its promise
Start(m) ==
  IF m.isRunning THEN m
  ELSE [m EXCEPT !.procs = Append(@, NewProcess), !.mcpProcess = Len(m.procs) + 1]

\* executeTool from the return of start() to the call of _makeRequest
MakeRequest(call) == [call EXCEPT !.pc = "request", !.requests = @ + 1]

ExecuteToolIgnoreStartFailure(call, message) ==
  IF call.pc = "start" THEN MakeRequest(call)
  ELSE [call EXCEPT !.pc = "done", !.thrown = ToolError(message)]

\* catch block of executeTool
ExecuteToolCatch(call, message) ==
  [call EXCEPT !.pc = "done", !.thrown = ToolError(message)]

\* resolve() of the start() call that spawned p, and the executeTool calls awaiting it
Resolve(m, p) ==
  IF m.procs[p].start # "pending" THEN m
  ELSE [m EXCEPT !.procs[p].start = "resolved",
                 !.execs = [c \in DOMAIN m.execs |->
                              IF m.execs[c].pc = "start" /\ m.execs[c].proc = p
                              THEN MakeRequest(m.execs[c]) ELSE m.execs[c]]]

\* reject(new Error(message)) of the start() call that spawned p
Reject(m, p, message) ==
  IF m.procs[p].start # "pending" THEN m
  ELSE [m EXCEPT !.procs[p].start = "rejected", !.procs[p].error = message,
                 !.execs = [c \in DOMAIN m.execs |->
                              IF m.execs[c].pc = "start" /\ m.execs[c].proc = p
                              THEN ExecuteToolCatch(m.execs[c], message) ELSE m.execs[c]]]

NoResponse == [kind |-> "none", statusCode |-> 0, body |-> ""]

\* an executeTool call: where it is, the start() it awaits or awaited, the calls of
\* start() and of _makeRequest it has made, how its exchange ended, and its result
NewCall ==
  [pc |-> "start", proc |-> NoProcess, starts |-> 0, requests |-> 0,
   response |-> NoResponse, value |-> Null, thrown |-> NoError]

\* a call of start() by the owner of the client
ClientStart ==
  /\ isRunning \/ Len(procs) < MaxProcs
  /\ CommitMcp(Start(Mcp))
  /\ delivery' = NoDelivery
  /\ UNCHANGED <<clock, regVars, orchVars, clients, ret, agent>>

ExecuteTool ==
  /\ Len(execs) < MaxExecs
  /\ isRunning \/ Len(procs) < MaxProcs
  /\ IF isRunning
     THEN CommitMcp([Mcp EXCEPT !.execs = Append(@, MakeRequest(NewCall))])
     ELSE LET m == Start(Mcp)
          IN CommitMcp([m EXCEPT !.execs = Append(@, [NewCall EXCEPT !.proc = m.mcpProcess,
                                                                   !.starts = 1])])
  /\ delivery' = NoDelivery
  /\ UNCHANGED <<clock, regVars, orchVars, clients, ret, agent>>

\* 'data' on the standard output of p
Stdout(p, output) ==
  /\ procs[p].alive
  /\ Len(procs[p].outputBuffer) + Len(output) <= MaxBuffer
  /\ LET m == [Mcp EXCEPT !.procs[p].outputBuffer = @ \o output]
     IN CommitMcp(IF IsReady(output) THEN Resolve([m EXCEPT !.isRunning = TRUE], p) ELSE m)
  /\ delivery' = NoDelivery
  /\ UNCHANGED <<clock, regVars, orchVars, clients, ret, agent>>

\* 'data' on the error stream of p
Stderr(p, text) ==
  /\ procs[p].alive
  /\ LET m == [Mcp EXCEPT !.procs[p].stderr = @ \/ ~IsReady(procs[p].outputBuffer)]
     IN CommitMcp(IF ~isRunning THEN Reject(m, p, StartupError(text)) ELSE m)
  /\ delivery' = NoDelivery
  /\ UNCHANGED <<clock, regVars, orchVars, clients, ret, agent>>

\* the 'close' listener stop() puts on the process: every stop() waiting for p resolves
StopClose(m, p) ==
  IF \A s \in DOMAIN m.stops : ~(m.stops[s].pc = "pending" /\ m.stops[s].proc = p) THEN m
  ELSE [m EXCEPT !.isRunning = FALSE, !.mcpProcess = NoProcess,
                 !.stops = [s \in DOMAIN m.stops |->
                              IF m.stops[s].pc = "pending" /\ m.stops[s].proc = p
                              THEN [m.stops[s] EXCEPT !.pc = "done"] ELSE m.stops[s]]]

StartCloseKeepRunning(m, p, code) ==
  IF code # "0" /\ ~m.isRunning THEN Reject(m, p, ExitError(code)) ELSE m

\* the 'close' listener start() puts on the process
StartClose(m, p, code) ==
  IF code # "0" /\ ~m.isRunning THEN Reject(m, p, ExitError(code))
  ELSE IF m.isRunning THEN [m EXCEPT !.isRunning = FALSE]
  ELSE m

\* 'close' of p: the process has exited; the listeners run in the order they were added
Close(p, code) ==
  /\ procs[p].alive
  /\ code = "null" => procs[p].signal # "none"
  /\ CommitMcp(StopClose(StartClose([Mcp EXCEPT !.procs[p].alive = FALSE], p, code), p))
  /\ delivery' = NoDelivery
  /\ UNCHANGED <<clock, regVars, orchVars, clients, ret, agent>>

\* the startup timer of the start() call that spawned p fires
StartTimeout(p) ==
  /\ procs[p].timer = "armed"
  /\ CommitMcp([Mcp EXCEPT !.procs[p].timer = IF ~isRunning THEN "checking" ELSE "done"])
  /\ delivery' = NoDelivery
  /\ UNCHANGED <<clock, regVars, orchVars, clients, ret, agent>>

\* _checkPlaywrightInstallation resolves (or rejects): both handlers reject the start
CheckDone(p) ==
  /\ procs[p].timer = "checking"
  /\ CommitMcp(Reject([Mcp EXCEPT !.procs[p].timer = "done"], p, StartupTimeout))
  /\ delivery' = NoDelivery
  /\ UNCHANGED <<clock, regVars, orchVars, clients, ret, agent>>

\* process.kill(signal): nothing for a process that has exited
Kill(m, p, signal) ==
  IF m.procs[p].alive THEN [m EXCEPT !.procs[p].signal = signal] ELSE m

\* a call of stop() by the owner of the client
ClientStop ==
  /\ Len(stops) < MaxStops
  /\ IF ~isRunning \/ mcpProcess = NoProcess
     THEN CommitMcp([Mcp EXCEPT !.stops = Append(@, [pc |-> "done", proc |-> NoProcess,
                                                     timer |-> "none"])])
     ELSE CommitMcp(Kill([Mcp EXCEPT !.stops = Append(@, [pc |-> "pending",
                                                          proc |-> mcpProcess,
                                                          timer |-> "armed"])],
                         mcpProcess, "SIGTERM"))
  /\ delivery' = NoDelivery
  /\ UNCHANGED <<clock, regVars, orchVars, clients, ret, agent>>

\* the 5 s timer of the stop() call s fires
StopTimeout(s) ==
  /\ stops[s].timer = "armed"
  /\ LET m == [Mcp EXCEPT !.stops[s].timer = "done"]
     IN CommitMcp(IF mcpProcess # NoProcess THEN Kill(m, mcpProcess, "SIGKILL") ELSE m)
  /\ delivery' = NoDelivery
  /\ UNCHANGED <<clock, regVars, orchVars, clients, ret, agent>>

\* how the exchange _makeRequest started can end
Responses ==
  { [kind |-> "response", statusCode |-> 200, body |-> "{\"ok\":true}"],
    [kind |-> "response", statusCode |-> 200, body |-> ""],
    [kind |-> "response", statusCode |-> 200, body |-> "<html>"],
    [kind |-> "response", statusCode |-> 500, body |-> "boom"],
    [kind |-> "error", statusCode |-> 0, body |-> "connect ECONNREFUSED"],
    [kind |-> "timeout", statusCode |-> 0, body |-> ""] }

\* JSON.parse of the bodies above; a parse error is .thrown
JsonParse(body) ==
  IF body = "{\"ok\":true}" THEN [value |-> [ok |-> TRUE], thrown |-> NoError]
  ELSE [value |-> Null, thrown |-> "Unexpected token < in JSON at position 0"]

RequestOutcomeAnyStatus(r) ==
  IF r.kind = "error" THEN [value |-> Null, thrown |-> "Request failed: " \o r.body]
  ELSE IF r.kind = "timeout"
  THEN [value |-> Null, thrown |-> "Request timed out after 60000ms"]
  ELSE IF r.body = "" THEN [value |-> <<>>, thrown |-> NoError]
  ELSE LET parsed == JsonParse(r.body)
       IN IF parsed.thrown = NoError THEN parsed
          ELSE [value |-> Null, thrown |-> "Failed to parse response: " \o parsed.thrown]

\* what the promise of _makeRequest settles with
RequestOutcome(r) ==
  IF r.kind = "error" THEN [value |-> Null, thrown |-> "Request failed: " \o r.body]
  ELSE IF r.kind = "timeout"
  THEN [value |-> Null, thrown |-> "Request timed out after 60000ms"]
  ELSE IF r.statusCode >= 200 /\ r.statusCode < 300
  THEN IF r.body = "" THEN [value |-> <<>>, thrown |-> NoError]
       ELSE LET parsed == JsonParse(r.body)
            IN IF parsed.thrown = NoError THEN parsed
               ELSE [value |-> Null,
                     thrown |-> "Failed to parse response: " \o parsed.thrown]
  ELSE [value |-> Null,
        thrown |-> "HTTP error " \o ToString(r.statusCode) \o ": " \o r.body]

\* the exchange of the executeTool call c ends
Response(c, r) ==
  /\ execs[c].pc = "request"
  /\ LET out == RequestOutcome(r)
         call == [execs[c] EXCEPT !.response = r]
     IN CommitMcp([Mcp EXCEPT !.execs[c] =
                     IF out.thrown = NoError
                     THEN [call EXCEPT !.pc = "done", !.value = out.value]
                     ELSE ExecuteToolCatch(call, out.thrown)])
  /\ delivery' = NoDelivery
  /\ UNCHANGED <<clock, regVars, orchVars, clients, ret, agent>>

NextClient ==
  \/ ClientStart
  \/ ExecuteTool
  \/ \E p \in DOMAIN procs, output \in StdoutChunks : Stdout(p, output)
  \/ \E p \in DOMAIN procs, text \in StderrTexts : Stderr(p, text)
  \/ \E p \in DOMAIN procs, code \in ExitCodes : Close(p, code)
  \/ \E p \in DOMAIN procs : StartTimeout(p)
  \/ \E p \in DOMAIN procs : CheckDone(p)
  \/ ClientStop
  \/ \E s \in DOMAIN stops : StopTimeout(s)
  \/ \E c \in DOMAIN execs, r \in Responses : Response(c, r)

\* the client under the calls of its owner and the events of its processes and requests
SpecClient == Init /\ [][NextClient]_vars

\* the names executeTool is called with: the parts below, up to three in a row
NameParts == {"browser_", "browser", "_", "click", "Browser_"}
ToolCallNames ==
  {""} \cup NameParts \cup {a \o b : a, b \in NameParts}
       \cup {a \o b \o c : a, b, c \in NameParts}

BaseUrl == "http://localhost:3001"

\* String.prototype.startsWith
StartsWith(string, prefix) ==
  Len(string) >= Len(prefix) /\ SubSeq(string, 1, Len(prefix)) = prefix

FormatToolNameAlways(toolName) == "browser_" \o toolName

\* formattedToolName of executeTool
FormatToolName(toolName) ==
  IF StartsWith(toolName, "browser_") THEN toolName ELSE "browser_" \o toolName

\* endpoint of executeTool
Endpoint(toolName) == BaseUrl \o "/api/tools/" \o FormatToolName(toolName)

\* executeTool(toolName, args) on a running client, up to the call of _makeRequest:
\* the name and the address of the request it makes
WireRequest(toolName) ==
  /\ ret' = [op |-> "executeTool", arg |-> toolName,
             value |-> [name |-> FormatToolName(toolName), url |-> Endpoint(toolName)],
             thrown |-> NoError, prior |-> Null]
  /\ delivery' = NoDelivery
  /\ UNCHANGED <<clock, regVars, tasks, objs, wf, clients, sent, assigned, endTimeWrites,
                 mcpVars, agent>>

NextWire == \E toolName \in ToolCallNames : WireRequest(toolName)

\* the requests of executeTool under the names it is given
SpecWire == Init /\ [][NextWire]_vars

-----------------------------------------------------------------------------
(* MCPClient: the built-in tool definitions *)

\* _getBaseTools: the definitions as they are written in the source; the description of
\* a property, which nothing reads, is left out
GetBaseTools ==
  <<
     [name |-> "browser_navigate", description |-> "Navigate to a URL",
      parameters |-> [type |-> "object", properties |-> [url |-> [type |-> "string"]],
        required |-> <<"url">>]],
     [name |-> "browser_navigate_back", description |-> "Go back to the previous page",
      parameters |-> [type |-> "object", properties |-> <<>>]],
     [name |-> "browser_navigate_forward", description |-> "Go forward to the next page",
      parameters |-> [type |-> "object", properties |-> <<>>]],
     [name |-> "browser_snapshot",
        description |-> "Capture accessibility snapshot of the current page",
      parameters |-> [type |-> "object", properties |-> <<>>]],
     [name |-> "browser_take_screenshot",
        description |-> "Take a screenshot of the current page",
      parameters |-> [type |-> "object", properties |-> [raw |-> [type |-> "boolean"]]]],
     [name |-> "browser_click", description |-> "Perform click on a web page",
      parameters |-> [type |-> "object", properties |-> [element |-> [type |-> "string"],
        ref |-> [type |-> "string"]], required |-> <<"element", "ref">>]],
     [name |-> "browser_hover", description |-> "Hover over element on page",
      parameters |-> [type |-> "object", properties |-> [element |-> [type |-> "string"],
        ref |-> [type |-> "string"]], required |-> <<"element", "ref">>]],
     [name |-> "browser_type", description |-> "Type text into editable element",
      parameters |-> [type |-> "object", properties |-> [element |-> [type |-> "string"],
        ref |-> [type |-> "string"], text |-> [type |-> "string"],
        submit |-> [type |-> "boolean"], slowly |-> [type |-> "boolean"]],
        required |-> <<"element", "ref", "text">>]],
     [name |-> "browser_select_option", description |-> "Select an option in a dropdown",
      parameters |-> [type |-> "object", properties |-> [element |-> [type |-> "string"],
        ref |-> [type |-> "string"], values |-> [type |-> "array",
        items |-> [type |-> "string"]]], required |-> <<"element", "ref", "values">>]],
     [name |-> "browser_press_key", description |-> "Press a key on the keyboard",
      parameters |-> [type |-> "object", properties |-> [key |-> [type |-> "string"]],
        required |-> <<"key">>]],
     [name |-> "browser_console_messages", description |-> "Returns all console messages",
      parameters |-> [type |-> "object", properties |-> <<>>]],
     [name |-> "browser_file_upload",
        description |-> "Choose one or multiple files to upload",
      parameters |-> [type |-> "object", properties |-> [paths |-> [type |-> "array",
        items |-> [type |-> "string"]]], required |-> <<"paths">>]],
     [name |-> "browser_pdf_save", description |-> "Save page as PDF",
      parameters |-> [type |-> "object", properties |-> <<>>]],
     [name |-> "browser_wait", description |-> "Wait for a specified time in seconds",
      parameters |-> [type |-> "object", properties |-> [time |-> [type |-> "number"]],
        required |-> <<"time">>]],
     [name |-> "browser_close", description |-> "Close the page",
      parameters |-> [type |-> "object", properties |-> <<>>]],
     [name |-> "browser_install",
        description |-> "Install the browser specified in the config",
      parameters |-> [type |-> "object", properties |-> <<>>]],
     [name |-> "browser_tab_list", description |-> "List browser tabs",
      parameters |-> [type |-> "object", properties |-> <<>>]],
     [name |-> "browser_tab_new", description |-> "Open a new tab",
      parameters |-> [type |-> "object", properties |-> [url |-> [type |-> "string"]]]],
     [name |-> "browser_tab_select", description |-> "Select a tab by index",
      parameters |-> [type |-> "object", properties |-> [index |-> [type |-> "number"]],
        required |-> <<"index">>]],
     [name |-> "browser_tab_close", description |-> "Close a tab",
      parameters |-> [type |-> "object", properties |-> [index |-> [type |-> "number"]]]]
  >>

\* _getVisionTools
GetVisionTools ==
  <<
     [name |-> "browser_screen_capture",
        description |-> "Take a screenshot of the current page",
      parameters |-> [type |-> "object", properties |-> <<>>]],
     [name |-> "browser_screen_click",
        description |-> "Click left mouse button at specific coordinates",
      parameters |-> [type |-> "object", properties |-> [element |-> [type |-> "string"],
        x |-> [type |-> "number"], y |-> [type |-> "number"]], required |-> <<"element",
        "x", "y">>]],
     [name |-> "browser_screen_move_mouse",
        description |-> "Move mouse to a given position",
      parameters |-> [type |-> "object", properties |-> [element |-> [type |-> "string"],
        x |-> [type |-> "number"], y |-> [type |-> "number"]], required |-> <<"element",
        "x", "y">>]],
     [name |-> "browser_screen_drag",
        description |-> "Drag left mouse button from one position to another",
      parameters |-> [type |-> "object", properties |-> [element |-> [type |-> "string"],
        startX |-> [type |-> "number"], startY |-> [type |-> "number"],
        endX |-> [type |-> "number"], endY |-> [type |-> "number"]],
        required |-> <<"element", "startX", "startY", "endX", "endY">>]],
     [name |-> "browser_screen_type",
        description |-> "Type text at the current cursor position",
      parameters |-> [type |-> "object", properties |-> [text |-> [type |-> "string"],
        submit |-> [type |-> "boolean"]], required |-> <<"text">>]]
  >>

GetPlaywrightToolDefinitionsAllModes(vision) == GetBaseTools \o GetVisionTools

\* _getPlaywrightToolDefinitions of a client constructed with options.vision = vision
GetPlaywrightToolDefinitions(vision) ==
  GetBaseTools \o (IF vision THEN GetVisionTools ELSE <<>>)

\* what the body of the forEach of _validateAndFixToolDefinitions makes of one property
ValidateAndFixProperty(prop) ==
  LET a == Drop(prop, "default")
      b == IF "type" \in DOMAIN a /\ a.type = "array" /\ "items" \notin DOMAIN a
           THEN Put(a, "items", [type |-> "string"]) ELSE a
  IN IF "items" \notin DOMAIN b THEN b
     ELSE LET i == Drop(b.items, "default")
          IN Put(b, "items", IF "type" \notin DOMAIN i THEN Put(i, "type", "string") ELSE i)

\* _validateAndFixToolDefinitions on one tool
ValidateAndFixToolDefinition(tool) ==
  IF Missing(tool, "parameters") THEN tool
  ELSE LET p == IF "type" \notin DOMAIN tool.parameters
                THEN Put(tool.parameters, "type", "object") ELSE tool.parameters
       IN IF "properties" \notin DOMAIN p THEN Put(tool, "parameters", p)
          ELSE Put(tool, "parameters",
                   Put(p, "properties",
                       [k \in DOMAIN p.properties |->
                          ValidateAndFixProperty(p.properties[k])]))

\* the array registerTools builds and fixes
RegisterToolsList(vision) ==
  LET list == IF vision THEN GetBaseTools \o GetVisionTools ELSE GetBaseTools
  IN [i \in DOMAIN list |-> ValidateAndFixToolDefinition(list[i])]

\* getToolDefinitions() of a client constructed with options.vision = vision
CallGetToolDefinitions(vision) ==
  /\ ret' = [op |-> "getToolDefinitions", arg |-> vision,
             value |-> GetPlaywrightToolDefinitions(vision), thrown |-> NoError,
             prior |-> Null]
  /\ delivery' = NoDelivery
  /\ UNCHANGED <<clock, regVars, orchVars, clients, mcpVars, agent>>

\* registerTools(toolRegistry) of such a client, on the registry of the system
CallRegisterTools(vision) ==
  /\ LET r == RegisterAll(Registry, RegisterToolsList(vision))
     IN /\ tools' = r.tools
        /\ agentTools' = r.agentTools
        /\ ret' = [op |-> "registerTools", arg |-> vision,
                   value |-> RegisterToolsList(vision), thrown |-> r.thrown,
                   prior |-> Null]
  /\ delivery' = NoDelivery
  /\ UNCHANGED <<clock, orchVars, clients, mcpVars, agent>>

NextCatalog ==
  \/ NextRegistry
  \/ \E vision \in BOOLEAN : CallGetToolDefinitions(vision)
  \/ \E vision \in BOOLEAN : CallRegisterTools(vision)

\* the registry under its operations and under the clients' catalog operations
SpecCatalog == Init /\ [][NextCatalog]_vars

-----------------------------------------------------------------------------
(* Agent *)

\* response.functionCalls of the model's answer: the names of the tools it asks for
FunctionCallLists ==
  {<<>>, <<"web_search">>, <<"browser_click">>, <<"web_search", "run_command">>}

\* await this.mcpClient.executeTool(name, args): it returns or it throws
ToolOutcomes == {"success", "error"}

\* process, up to the first chat.sendMessage: the role's tools are read from the
\* registry and their definitions fixed in place (_validateFunctionDeclarations
\* changes nothing that _fixToolDefinitions has left)
Process(role) ==
  /\ agent.pc \in {"idle", "done"}
  /\ LET got == GetToolsForAgent(Registry, role)
     IN tools' = [n \in DOMAIN tools |->
                    IF tools[n] \in got THEN FixToolDefinition(tools[n]) ELSE tools[n]]
  /\ agent' = [NoProcessCall EXCEPT !.pc = "model", !.role = role]
  /\ ret' = NoCall
  /\ delivery' = NoDelivery
  /\ UNCHANGED <<clock, agentTools, orchVars, clients, mcpVars>>

\* _handleToolCalls: the call of executeTool for the next function call, or, after the
\* last one, the second chat.sendMessage
NextToolCall(a) ==
  IF Len(a.results) < Len(a.calls)
  THEN [a EXCEPT !.pc = "tool", !.executed = Append(@, a.calls[Len(a.results) + 1])]
  ELSE [a EXCEPT !.pc = "followup"]

\* catch block of process
ProcessCatch(a, role, message) ==
  [a EXCEPT !.pc = "done", !.thrown = AgentFailure(role, message)]

\* the first chat.sendMessage resolves with a text and function calls
ModelResponds(text, functionCalls) ==
  /\ agent.pc = "model"
  /\ agent' = IF functionCalls = <<>>
              THEN [agent EXCEPT !.pc = "done", !.value = text]
              ELSE NextToolCall([agent EXCEPT !.text = text, !.calls = functionCalls])
  /\ ret' = NoCall
  /\ delivery' = NoDelivery
  /\ UNCHANGED <<clock, regVars, orchVars, clients, mcpVars>>

\* a chat.sendMessage rejects
ModelRaises(message) ==
  /\ agent.pc \in {"model", "followup"}
  /\ agent' = ProcessCatch(agent, agent.role, message)
  /\ ret' = NoCall
  /\ delivery' = NoDelivery
  /\ UNCHANGED <<clock, regVars, orchVars, clients, mcpVars>>

\* the executeTool call in progress settles: try and catch of the loop body
ToolSettles(outcome) ==
  /\ agent.pc = "tool"
  /\ agent' = NextToolCall([agent EXCEPT
                 !.results = Append(@, [tool |-> agent.calls[Len(agent.results) + 1],
                                        status |-> outcome])])
  /\ ret' = NoCall
  /\ delivery' = NoDelivery
  /\ UNCHANGED <<clock, regVars, orchVars, clients, mcpVars>>

\* the second chat.sendMessage resolves
FollowupResponds(text) ==
  /\ agent.pc = "followup"
  /\ agent' = [agent EXCEPT !.pc = "done", !.value = agent.text \o "\n\n" \o text]
  /\ ret' = NoCall
  /\ delivery' = NoDelivery
  /\ UNCHANGED <<clock, regVars, orchVars, clients, mcpVars>>

NextAgent ==
  \/ \E role \in Range(Roles) : Process(role)
  \/ \E text \in Outputs, functionCalls \in FunctionCallLists :
       ModelResponds(text, functionCalls)
  \/ \E message \in ModelFailures : ModelRaises(message)
  \/ \E outcome \in ToolOutcomes : ToolSettles(outcome)
  \/ \E text \in Outputs : FollowupResponds(text)
  \/ \E n \in ToolNames : CallUnregisterTool(n)

\* a Role Agent under the calls of process, the answers of the model and of the
\* execution client, and the removal of tools from the registry
SpecAgent == Init /\ [][NextAgent]_vars

-----------------------------------------------------------------------------
(* Claims *)

StatusOrder == <<"pending", "thinking", "planning", "executing", "reviewing", "completed">>

\* a change of status the linear state machine allows
LegalStep(a, b) ==
  \/ a = NoStatus /\ b = StatusOrder[1]
  \/ \E i \in 1..(Len(StatusOrder) - 1) : a = StatusOrder[i] /\ b = StatusOrder[i + 1]
  \/ a \in Range(StatusOrder) \ {"completed"} /\ b = "failed"

\* C1: the values a task's status takes are a prefix of pending, thinking, planning,
\* executing, reviewing, completed, optionally followed by one step to failed from a
\* non-terminal status: every change of status is a step of that machine.
C1_StatusSequence ==
  \A o \in DOMAIN objs : \A t \in assigned[o] : t[1] # t[2] => LegalStep(t[1], t[2])

\* C2: once a task is completed or failed, _updateTaskStatus is never applied to it
\* again, and endTime is written at most once.
C2_TerminalIsFinal ==
  \A o \in DOMAIN objs :
    /\ endTimeWrites[o] <= 1
    /\ \A t \in assigned[o] : ~Terminal(t[1])

\* C3: within one task the Role Agent calls are started in the order thinker, planner,
\* executor, reviewer, and the call of a phase is started only when the calls of all
\* earlier phases have returned successfully.
C3_PhasesSequential ==
  \A w \in DOMAIN wf :
    /\ IsPrefix(wf[w].calls, <<"thinker", "planner", "executor", "reviewer">>)
    /\ Len(wf[w].calls) <= Len(wf[w].outs) + 1

C3_Witness ==
  \E w1, w2 \in DOMAIN wf :
    /\ w1 # w2
    /\ Len(wf[w1].calls) = 4 /\ Len(wf[w1].outs) = 3
    /\ Len(wf[w2].calls) = 2 /\ Len(wf[w2].outs) = 1

\* C4: when a Role Agent call raises, the task is failed with result {error: the raised
\* message}, endTime is set, no later call has been started and history has one record
\* per phase that returned before the failure.
C4_PhaseFailure ==
  \A w \in DOMAIN wf :
    wf[w].raised # NoError =>
      /\ wf[w].pc = "done"
      /\ objs[w].status = "failed"
      /\ objs[w].result = [error |-> wf[w].raised]
      /\ objs[w].endTime # NoTime
      /\ Len(wf[w].calls) = Len(wf[w].outs) + 1
      /\ Len(objs[w].history) = Len(wf[w].outs)

C5_HistoryShape ==
  \A o \in DOMAIN objs :
    LET h == objs[o].history
    IN /\ Len(h) <= 4
       /\ Len(h) = Len(wf[o].outs)
       /\ \A i \in DOMAIN h :
            /\ h[i].phase = <<"thinking", "planning", "executing", "reviewing">>[i]
            /\ h[i].output = wf[o].outs[i]

C5_AppendOnly ==
  \A o \in DOMAIN objs : IsPrefix(objs[o].history, objs'[o].history)

\* C5: a task's history never has more than 4 records, its phase labels are a prefix of
\* thinking, planning, executing, reviewing, it holds one record per phase whose call
\* returned, and every step leaves the records it held in place (append only).
C5_History == [](C5_HistoryShape) /\ [][C5_AppendOnly]_vars

C5_Witness == \E o \in DOMAIN objs : Len(objs[o].history) = 4

\* C6: a task whose four Role Agent calls have all returned ends completed, with a
\* history of 4 records and a result holding the four outputs.
C6_AllPhasesComplete ==
  \A w \in DOMAIN wf :
    (Len(wf[w].outs) = 4 /\ wf[w].pc = "done") =>
      /\ objs[w].status = "completed"
      /\ Len(objs[w].history) = 4
      /\ objs[w].result = [thinking |-> wf[w].outs[1], planning |-> wf[w].outs[2],
                           execution |-> wf[w].outs[3], review |-> wf[w].outs[4],
                           finalResult |-> wf[w].outs[4]]

\* C7: one event is broadcast per status transition of a task: no status is announced
\* twice, and a phase failure is announced by one failed event, whose result is
\* {error: the raised message}.
C7_OneEventPerTransition ==
  \A w \in DOMAIN sent :
    /\ \A i, j \in DOMAIN sent[w] : i # j => sent[w][i].status # sent[w][j].status
    /\ \A i \in DOMAIN sent[w] :
         (sent[w][i].status = "failed" /\ wf[w].raised # NoError)
            => sent[w][i].result = [error |-> wf[w].raised]

StatusAfter == <<"planning", "executing", "reviewing", "completed">>

\* the event announcing the status that follows phase k of w, carrying result
Announced(w, k, result) ==
  \E i \in DOMAIN sent[w] :
    sent[w][i] = [type |-> "task_update", taskId |-> wf[w].taskId,
                  status |-> StatusAfter[k], result |-> result]

C9_BroadcastIsolation == delivery.invoked = delivery.registered

\* C10: two startTask calls never return the same id, and the task stored under an id
\* is never replaced by a later one.
C10_UniqueIds ==
  \A w \in DOMAIN wf :
    /\ tasks[wf[w].taskId] = w
    /\ \A v \in DOMAIN wf : v # w => wf[v].taskId # wf[w].taskId

\* C11: a step of the phase sequence of one task (the return or the failure of one of
\* its Role Agent calls) changes no field of any other task object.
C11_TaskIsolation ==
  [][\A w \in DOMAIN wf : \A o \in DOMAIN objs :
        (wf'[w] # wf[w] /\ o # w) => objs'[o] = objs[o]]_vars

\* C12: every task startTask has created and stored is known to getTaskStatus under its
\* id, its task_started event was broadcast first, and its phase sequence has been
\* launched (the thinking update follows task_started and the thinker's call is started);
\* no Role Agent call returns within startTask.
C12_StartTaskOrder ==
  \A w \in DOMAIN wf :
    /\ GetTaskStatus(wf[w].taskId).thrown = NoError
    /\ Len(sent[w]) >= 2
    /\ sent[w][1] = [type |-> "task_started", taskId |-> wf[w].taskId, status |-> "thinking"]
    /\ sent[w][2].type = "task_update" /\ sent[w][2].status = "thinking"
    /\ wf[w].pc # "unlaunched"
    /\ Len(wf[w].calls) >= 1
    /\ delivery.made /\ Len(sent[w]) = 2 => wf[w].outs = <<>>

\* the ids startTask calls have returned
ReturnedIds == {wf[w].taskId : w \in {v \in DOMAIN wf : wf[v].pc # "unlaunched"}}

\* C13: getTaskStatus(taskId) throws the task-not-found error for every id no startTask
\* has returned, and for an id one has returned it returns the id, status, result,
\* history, startTime and endTime of the task stored under it.
C13_GetTaskStatus ==
  ret.op = "getTaskStatus" =>
    IF ret.arg \in ReturnedIds
    THEN /\ ret.thrown = NoError
         /\ LET task == objs[tasks[ret.arg]]
            IN ret.value = [id |-> ret.arg, status |-> task.status, result |-> task.result,
                            history |-> task.history, startTime |-> task.startTime,
                            endTime |-> task.endTime]
    ELSE ret.thrown = TaskNotFound(ret.arg)

\* C13, its frame: the call changes no task, no subscriber and no registry state and
\* broadcasts nothing.
C13_Frame ==
  [][ret'.op = "getTaskStatus" =>
       /\ UNCHANGED <<clock, regVars, orchVars, clients>>
       /\ ~delivery'.made]_vars

\* C14: a step that removes a subscriber changes nothing but the subscriber map, and
\* what the return of a pending Role Agent call makes of any task (status, result,
\* history, endTime) is the same after the step as before it.
C14_UnregisterFrame ==
  [][(\E id \in ClientIds :
         clients' # clients /\ clients' = SelectSeq(clients, LAMBDA c : c.id # id))
      => /\ UNCHANGED <<clock, regVars, orchVars>>
         /\ \A w \in DOMAIN wf : \A out \in Outputs :
              wf[w].pc = "agent" => Resume(w, out)'.objs = Resume(w, out).objs]_vars

\* C15: for every stored tool t and every role r, getToolsForAgent(r) returns t exactly
\* when r is among the allowedAgents of t's stored definition (executor when it has
\* none).
C15_PermissionIndex ==
  \A n \in DOMAIN tools : \A a \in QueryRoles :
    (tools[n] \in GetToolsForAgent(Registry, a)) <=> (a \in Range(AllowedAgents(tools[n])))

\* C16: registerTool with name, description or parameters missing throws the
\* invalid-definition error and leaves the stored definitions and every role's set as
\* they were.
C16_InvalidRejected ==
  [][(/\ ret'.op = "registerTool"
      /\ \E f \in {"name", "description", "parameters"} : Missing(ret'.arg, f))
      => /\ ret'.thrown = "Tool must have name, description, and parameters"
         /\ tools' = tools
         /\ agentTools' = agentTools]_vars

C16_Witness ==
  /\ ret.op = "registerTool"
  /\ ret.arg = NoParameters
  /\ ret.thrown = "Tool must have name, description, and parameters"

\* C17: unregisterTool(name) returns true exactly when name was registered; after it
\* hasTool(name) is false and name is in no role's set, every other tool's definition
\* and every role's other names are as before, and a call on a name that is not
\* registered (a second call) returns false and changes nothing.
C17_Unregister ==
  [][ret'.op = "unregisterTool" =>
       LET name == ret'.arg
       IN /\ ret'.value = (name \in DOMAIN tools)
          /\ ~HasTool(Registry', name)
          /\ \A a \in DOMAIN agentTools' : name \notin agentTools'[a]
          /\ DOMAIN tools' = DOMAIN tools \ {name}
          /\ \A n \in DOMAIN tools' : tools'[n] = tools[n]
          /\ DOMAIN agentTools' = DOMAIN agentTools
          /\ \A a \in DOMAIN agentTools : agentTools'[a] = agentTools[a] \ {name}
          /\ name \notin DOMAIN tools => (tools' = tools /\ agentTools' = agentTools)]_vars

\* a tool the constructor registered has been unregistered, and the call was repeated
C17_Witness ==
  /\ ret.op = "unregisterTool"
  /\ ret.arg = "web_search"
  /\ ret.value = FALSE
  /\ \A a \in DOMAIN agentTools : "web_search" \notin agentTools[a]

\* C18: after a registerTool call that succeeds the registry holds, under the name of
\* the registered definition, that definition and no other; every definition is stored
\* under its own name and the definitions of the other names are as before; and when
\* the definition is identical to the one already stored, the stored definitions and
\* every role's set are unchanged.
C18_UniqueLatest ==
  [][(ret'.op = "registerTool" /\ ret'.thrown = NoError) =>
       LET tool == ret'.arg
       IN /\ DOMAIN tools' = DOMAIN tools \cup {tool.name}
          /\ tools'[tool.name] = tool
          /\ \A n \in DOMAIN tools' : tools'[n].name = n
          /\ \A n \in DOMAIN tools \ {tool.name} : tools'[n] = tools[n]
          /\ (tool.name \in DOMAIN tools /\ tools[tool.name] = tool)
                => (tools' = tools /\ agentTools' = agentTools)]_vars

\* ping was registered for the thinker, registered again without allowedAgents, and
\* then registered once more with the definition that was stored
C18_Witness ==
  /\ ret.op = "registerTool"
  /\ ret.thrown = NoError
  /\ ret.arg = Ping
  /\ ret.prior = Ping
  /\ "ping" \in agentTools["thinker"]

\* C19: after registerTool has registered a definition without allowedAgents,
\* getToolsForAgent("executor") returns it and getToolsForAgent of thinker, planner and
\* reviewer does not.
C19_DefaultExecutor ==
  (ret.op = "registerTool" /\ ret.thrown = NoError /\ "allowedAgents" \notin DOMAIN ret.arg)
    => /\ ret.arg \in GetToolsForAgent(Registry, "executor")
       /\ \A a \in {"thinker", "planner", "reviewer"} :
            ret.arg \notin GetToolsForAgent(Registry, a)

\* C20: getToolsForAgent(role) returns the definitions the registry stores, at the time
\* of the call, under exactly the names of the role's set, whatever was registered or
\* unregistered since construction, and nothing for a role that has no set.
C20_LiveTools ==
  ret.op = "getToolsForAgent" =>
    LET a == ret.arg
    IN /\ a \notin DOMAIN agentTools => ret.value = {}
       /\ \A t \in ret.value :
            /\ t.name \in DOMAIN tools /\ tools[t.name] = t
            /\ a \in DOMAIN agentTools /\ t.name \in agentTools[a]
       /\ a \in DOMAIN agentTools =>
            \A n \in agentTools[a] : \E t \in ret.value : t.name = n

\* the executor's call returns ping, registered after construction, and does not return
\* web_search, unregistered after construction
C20_Witness ==
  /\ ret.op = "getToolsForAgent"
  /\ ret.arg = "executor"
  /\ Ping \in ret.value
  /\ \A t \in ret.value : t.name # "web_search"

\* every array-typed property of the definition declares a non-empty items schema
ArraysHaveItems(tool) ==
  "properties" \in DOMAIN tool.parameters =>
    \A k \in DOMAIN tool.parameters.properties :
      LET prop == tool.parameters.properties[k]
      IN ("type" \in DOMAIN prop /\ prop.type = "array")
            => ("items" \in DOMAIN prop /\ DOMAIN prop.items # {})

\* C21: after registerTool has registered a valid definition d, getTool(d.name) returns
\* a definition equal to d, every array-typed property of which declares items.
C21_ArrayItems ==
  (ret.op = "registerTool" /\ ret.thrown = NoError)
    => /\ GetTool(Registry, ret.arg.name) = ret.arg
       /\ ArraysHaveItems(GetTool(Registry, ret.arg.name))

\* C22: a client owns at most one live external process at any time, under every
\* interleaving of start(), stop() and executeTool() calls and of the processes' events.
Live == {p \in DOMAIN procs : procs[p].alive}

C22_OneProcess == Cardinality(Live) <= 1

\* C23: an executeTool call made while the client is not running calls start() exactly
\* once (which spawns one process) and calls _makeRequest only once that start() has
\* resolved, and not at all if it was rejected; a call made while the client is running
\* calls start() zero times and spawns nothing.
C23_Calls ==
  \A c \in DOMAIN execs :
    /\ execs[c].starts \in {0, 1}
    /\ execs[c].starts = 1 =>
         /\ execs[c].requests > 0 => procs[execs[c].proc].start = "resolved"
         /\ procs[execs[c].proc].start = "rejected" =>
              execs[c].requests = 0 /\ execs[c].pc = "done" /\ execs[c].thrown # NoError
         /\ procs[execs[c].proc].start = "pending" => execs[c].pc = "start"

C23_Step ==
  Len(execs') = Len(execs) + 1 =>
    LET call == execs'[Len(execs')]
    IN IF isRunning
       THEN call.starts = 0 /\ procs' = procs /\ call.requests = 1
       ELSE call.starts = 1 /\ Len(procs') = Len(procs) + 1
            /\ call.proc = Len(procs') /\ call.requests = 0

C24_StartupTimeout ==
  \A p \in DOMAIN procs :
    procs[p].error = StartupTimeout =>
      /\ procs[p].start = "rejected"
      /\ p = Len(procs) => ~isRunning
      /\ \A c \in DOMAIN execs :
           execs[c].starts = 1 /\ execs[c].proc = p =>
             /\ execs[c].pc = "done"
             /\ execs[c].thrown \in {StartupTimeout, ToolError(StartupTimeout)}

\* C25: the client becomes running only as a pending start() resolves (STARTING to
\* RUNNING); a start() that has failed stays failed, and a readiness marker seen after
\* it failed does not make the client running.
C25_Transitions ==
  /\ (~isRunning /\ isRunning') =>
       \E p \in DOMAIN procs : procs[p].start = "pending" /\ procs'[p].start = "resolved"
  /\ \A p \in DOMAIN procs : procs[p].start = "rejected" => procs'[p].start = "rejected"

C25_Lifecycle == [][C25_Transitions]_vars

\* C26: a start() that spawned a process is resolved exactly if that process has written
\* a readiness marker to its standard output while the start() was pending: a pending
\* start() has seen no marker written, and a resolved one has.
C26_Readiness ==
  \A p \in DOMAIN procs :
    /\ procs[p].start = "pending" => ~IsReady(procs[p].outputBuffer)
    /\ procs[p].start = "resolved" => IsReady(procs[p].outputBuffer)

\* C27: a start() whose process wrote to its error stream before it had written a
\* readiness marker has failed.
C27_StderrFails ==
  \A p \in DOMAIN procs : procs[p].stderr => procs[p].start = "rejected"

\* C28: stop() signals only the process it was called on: a process that has been sent
\* a termination or kill signal is one some stop() call was made for.
C28_StopSignals ==
  \A p \in DOMAIN procs :
    procs[p].signal # "none" => \E s \in DOMAIN stops : stops[s].proc = p

\* C29: while the client is running, a process that has written a readiness marker is
\* alive; when a process exits the client is not running afterwards; an executeTool call
\* issues its wire call only while the client is running, so a call made after the
\* process has stopped starts a new one first; a call makes at most one start() and at
\* most one wire call, and a finished call does nothing more.
IsLive(p) == procs[p].alive /\ IsReady(procs[p].outputBuffer)

C29_Calls ==
  /\ isRunning => \E p \in DOMAIN procs : IsLive(p)
  /\ \A c \in DOMAIN execs : execs[c].starts <= 1 /\ execs[c].requests <= 1

C29_Step ==
  /\ (\E p \in DOMAIN procs : procs[p].alive /\ ~procs'[p].alive) => ~isRunning'
  /\ \A c \in DOMAIN execs' :
       /\ (execs'[c].requests = 1 /\ (c \in DOMAIN execs => execs[c].requests = 0))
            => isRunning'
       /\ (c \in DOMAIN execs /\ execs[c].pc = "done") => execs'[c] = execs[c]

C29_LazyRestart == []C29_Calls /\ [][C29_Step]_vars

C29_Witness ==
  \E c \in DOMAIN execs :
    /\ execs[c].starts = 1 /\ execs[c].proc = 2 /\ execs[c].pc = "request"
    /\ procs[1].start = "resolved" /\ ~procs[1].alive /\ stops = <<>>

\* C30: an executeTool call makes at most one exchange; it returns the parsed body of a
\* response with a success status, and on a non-success status, a transport failure or
\* a timeout it fails with "Tool execution failed: " and the upstream message, without
\* a result.
IsSuccess(statusCode) == statusCode >= 200 /\ statusCode < 300

C30_Exchange ==
  \A c \in DOMAIN execs :
    LET call == execs[c]
        r == call.response
    IN /\ call.requests <= 1
       /\ r.kind # "none" <=> (call.pc = "done" /\ call.requests = 1)
       /\ call.thrown # NoError => call.value = Null
       /\ (r.kind = "response" /\ IsSuccess(r.statusCode) /\ call.thrown = NoError) =>
            call.value = IF r.body = "" THEN <<>> ELSE JsonParse(r.body).value
       /\ (r.kind = "response" /\ IsSuccess(r.statusCode) /\ r.body # "") =>
            (call.thrown = NoError <=> JsonParse(r.body).thrown = NoError)
       /\ (r.kind = "response" /\ ~IsSuccess(r.statusCode)) =>
            call.thrown = ToolError("HTTP error " \o ToString(r.statusCode) \o ": " \o r.body)
       /\ r.kind = "error" => call.thrown = ToolError("Request failed: " \o r.body)
       /\ r.kind = "timeout" => call.thrown = ToolError("Request timed out after 60000ms")

C30_Witness ==
  \E c \in DOMAIN execs :
    /\ execs[c].pc = "done" /\ execs[c].response.kind = "response"
    /\ ~IsSuccess(execs[c].response.statusCode) /\ execs[c].thrown # NoError

\* C31: the name executeTool puts on the wire is the given name when that starts with
\* "browser_" and "browser_" followed by the given name otherwise; formatting the
\* formatted name again changes nothing; the request goes to
\* baseUrl + "/api/tools/" + that name.
C31_WireName ==
  ret.op = "executeTool" =>
    LET given == ret.arg
        name == ret.value.name
    IN /\ StartsWith(given, "browser_") => name = given
       /\ ~StartsWith(given, "browser_") => name = "browser_" \o given
       /\ FormatToolName(name) = name
       /\ ret.value.url = BaseUrl \o "/api/tools/" \o name

C31_Witness ==
  /\ ret.op = "executeTool"
  /\ ret.arg = "browser_click" /\ ret.value.name = "browser_click"

\* C32: the catalog getToolDefinitions() returns and the one registerTools(registry)
\* registers hold every base tool in both modes and a vision tool exactly in vision
\* mode; every definition in them has a top-level type, items with a type on every
\* array property and no default on any property; after registerTools the registry
\* stores each of them.
IsComplete(tool) ==
  /\ "parameters" \in DOMAIN tool /\ "type" \in DOMAIN tool.parameters
  /\ \A k \in DOMAIN tool.parameters.properties :
       LET prop == tool.parameters.properties[k]
       IN /\ "default" \notin DOMAIN prop
          /\ prop.type = "array" => "items" \in DOMAIN prop /\ "type" \in DOMAIN prop.items

C32_Catalog ==
  ret.op \in {"getToolDefinitions", "registerTools"} =>
    LET catalog == ret.value
        names == {catalog[i].name : i \in DOMAIN catalog}
    IN /\ Range(BaseToolNames) \subseteq names
       /\ (names \cap Range(VisionToolNames) # {}) <=> ret.arg
       /\ \A i \in DOMAIN catalog : IsComplete(catalog[i])
       /\ ret.op = "registerTools" =>
            /\ ret.thrown = NoError
            /\ \A i \in DOMAIN catalog : GetTool(Registry, catalog[i].name) = catalog[i]

C32_Witness ==
  /\ ret.op = "registerTools" /\ ret.arg
  /\ HasTool(Registry, "browser_screen_drag")

\* C33: a process call that has ended after the model call or one of its tool calls
\* failed has thrown the error that names the role; it has not returned normally.
C33_FailureSurfaces ==
  agent.pc = "done" =>
    /\ agent.thrown # NoError =>
         agent.thrown \in {AgentFailure(agent.role, m) : m \in ModelFailures}
    /\ (\E i \in DOMAIN agent.results : agent.results[i].status = "error") =>
         agent.thrown # NoError

\* C34: every name a Role Agent passes to executeTool is, at that moment, registered and
\* in the set of the agent's role.
C34_Permitted ==
  Len(agent'.executed) > Len(agent.executed) =>
    LET name == agent'.executed[Len(agent'.executed)]
    IN /\ HasTool(Registry, name)
       /\ agent.role \in DOMAIN agentTools /\ name \in agentTools[agent.role]

C34_PermissionChecked == [][C34_Permitted]_vars

\* C35: when the grace timer of a stop() call fires, no process other than the one that
\* stop() was called on is sent a signal.
C35_TimerStep ==
  \A s \in DOMAIN stops :
    (stops[s].timer = "armed" /\ stops'[s].timer = "done") =>
      \A p \in DOMAIN procs : p # stops[s].proc => procs'[p].signal = procs[p].signal

C35_GraceTimer == [][C35_TimerStep]_vars

\* C36: a raising subscriber changes nothing for a task (one whose id no other task
\* shares): the task is failed only when one of its Role Agent calls raised, its phase
\* sequence has been launched, and a phase sequence that has ended without a raising
\* call has had all four calls return.
C36_SubscriberHarmless ==
  \A w \in DOMAIN wf :
    (\A v \in DOMAIN wf : v # w => wf[v].taskId # wf[w].taskId) =>
      /\ objs[w].status = "failed" => wf[w].raised # NoError
      /\ wf[w].pc # "unlaunched"
      /\ (wf[w].pc = "done" /\ wf[w].raised = NoError) => Len(wf[w].outs) = 4

\* C37: no stored task (one whose id no other task shares) is left in a non-terminal
\* status with nothing to wait for: while its status is not completed or failed, one of
\* its Role Agent calls is pending, so that the return or the failure of that call takes
\* the task on.
C37_NoTaskStuck ==
  \A w \in DOMAIN wf :
    (\A v \in DOMAIN wf : v # w => wf[v].taskId # wf[w].taskId) =>
      (Terminal(objs[w].status) \/ wf[w].pc = "agent")

\* C38: every tool name in some role's set is the key of a stored definition.
C38_NoDanglingPermission ==
  \A a \in DOMAIN agentTools : agentTools[a] \subseteq DOMAIN tools

C38_Witness ==
  /\ ret.op = "unregisterTool" /\ ret.arg = "ping" /\ ret.value = TRUE
  /\ ret.prior = Ping
  /\ "web_search" \in agentTools["thinker"]

\* C39: a startTask call that fails on an invalid extra tool (a step of startTask, the
\* one operation that answers no registry or status call, that creates no task)
\* broadcasts nothing and leaves the registry as it was.
C39_Step ==
  (ret'.op = "none" /\ objs' = objs) =>
    /\ ~delivery'.made
    /\ UNCHANGED <<tasks, wf, sent>>
    /\ UNCHANGED <<tools, agentTools>>

C39_StartTaskAtomic == [][C39_Step]_vars

====
